---------------------------- MODULE Spec2Model ----------------------------
(***************************************************************************)
(* Model of the authenticated API-access layer of react-aws-cicd:          *)
(*   - backend/src/config/index.ts      (corsOption)                       *)
(*   - the response envelope builders   (successResponse / errorResponse)  *)
(*   - frontend/src/services/api.ts     (axios instance + interceptors)    *)
(*                                                                         *)
(* JavaScript values are tagged records [t |-> <type>, v |-> <value>].     *)
(* JavaScript strings and serialized bodies are sequences of characters    *)
(* (one-character TLA+ strings), so that JSON.stringify and JSON.parse are *)
(* real conversions between values and text.                               *)
(***************************************************************************)
EXTENDS Integers, Sequences, FiniteSets, TLC

VARIABLES
    env,          \* process.env of the server process
    config,       \* the config module: not yet loaded, or its corsOption
    lastSuccess,  \* the latest successResponse call: arguments and result
    lastError,    \* the latest errorResponse call: arguments and result
    storage,      \* window.localStorage: a function on the keys present
    location,     \* window.location.href
    ops,          \* the api operations: position, request, outcome
    hrefWrites,   \* history: the values assigned to window.location.href
    idTokenLog,   \* history: what was last done to the idToken entry
    staleReset,   \* history: a 401 handler erased a token its request did not carry
    calls,        \* the itemService invocations: position, requests, result
    dashboard,    \* the state of the Dashboard component
    signUpForm    \* the state of the SignUpForm component

vars == <<env, config, lastSuccess, lastError,
          storage, location, ops, hrefWrites, idTokenLog, staleReset,
          calls, dashboard, signUpForm>>

serverVars == <<env, config, lastSuccess, lastError>>
clientVars == <<storage, location, ops, hrefWrites, idTokenLog, staleReset>>
pageVars   == <<calls, dashboard, signUpForm>>

-----------------------------------------------------------------------------
(* JavaScript values *)

Undefined == [t |-> "undefined"]
Null      == [t |-> "null"]
NaN       == [t |-> "NaN"]
Infinity  == [t |-> "Infinity"]
Bool(b)   == [t |-> "boolean", v |-> b]
Num(n)    == [t |-> "number", v |-> n]
Str(s)    == [t |-> "string", v |-> s]
Arr(a)    == [t |-> "array", v |-> a]
\* an object is its own enumerable properties, in insertion order
Obj(ps)   == [t |-> "object", v |-> ps]
Prop(k, x) == [key |-> k, val |-> x]

-----------------------------------------------------------------------------
(* JSON.stringify *)

QUOTE     == "\""
BACKSLASH == "\\"

Digits == <<"0", "1", "2", "3", "4", "5", "6", "7", "8", "9">>

Chars(word) ==
    CASE word = "null"  -> <<"n", "u", "l", "l">>
      [] word = "true"  -> <<"t", "r", "u", "e">>
      [] word = "false" -> <<"f", "a", "l", "s", "e">>

RECURSIVE NatToString(_)
NatToString(n) ==
    IF n < 10 THEN <<Digits[n + 1]>>
    ELSE NatToString(n \div 10) \o <<Digits[(n % 10) + 1]>>

\* Number::toString for the integers
NumberToString(n) ==
    IF n < 0 THEN <<"-">> \o NatToString(0 - n) ELSE NatToString(n)

RECURSIVE EscapeChars(_)
EscapeChars(s) ==
    IF s = <<>> THEN <<>>
    ELSE LET c == Head(s)
         IN (IF c = QUOTE \/ c = BACKSLASH THEN <<BACKSLASH, c>> ELSE <<c>>)
            \o EscapeChars(Tail(s))

\* QuoteJSONString
QuoteJSONString(s) == <<QUOTE>> \o EscapeChars(s) \o <<QUOTE>>

\* SerializeJSONProperty: [defined |-> FALSE] is the result `undefined`,
\* otherwise the text is in s.
NoText == [defined |-> FALSE, s |-> <<>>]
Text(s) == [defined |-> TRUE, s |-> s]

RECURSIVE SerializeJSONProperty(_), SerializeJSONArray(_, _), SerializeJSONObject(_, _)
SerializeJSONProperty(x) ==
    CASE x.t = "undefined" -> NoText
      [] x.t = "null"      -> Text(Chars("null"))
      [] x.t = "boolean"   -> Text(Chars(IF x.v THEN "true" ELSE "false"))
      [] x.t = "number"    -> Text(NumberToString(x.v))
      [] x.t = "NaN"       -> Text(Chars("null"))
      [] x.t = "Infinity"  -> Text(Chars("null"))
      [] x.t = "string"    -> Text(QuoteJSONString(x.v))
      [] x.t = "array"     -> Text(<<"[">> \o SerializeJSONArray(x.v, TRUE) \o <<"]">>)
      [] x.t = "object"    -> Text(<<"{">> \o SerializeJSONObject(x.v, TRUE) \o <<"}">>)

\* the elements, comma separated; an undefined element is written as null
SerializeJSONArray(a, first) ==
    IF a = <<>> THEN <<>>
    ELSE LET e == SerializeJSONProperty(Head(a))
         IN (IF first THEN <<>> ELSE <<",">>)
            \o (IF e.defined THEN e.s ELSE Chars("null"))
            \o SerializeJSONArray(Tail(a), FALSE)

\* the properties, comma separated; a property whose value is undefined is left out
SerializeJSONObject(ps, first) ==
    IF ps = <<>> THEN <<>>
    ELSE LET p == Head(ps)
             e == SerializeJSONProperty(p.val)
         IN IF e.defined
            THEN (IF first THEN <<>> ELSE <<",">>)
                 \o QuoteJSONString(p.key) \o <<":">> \o e.s
                 \o SerializeJSONObject(Tail(ps), FALSE)
            ELSE SerializeJSONObject(Tail(ps), first)

JSONStringify(x) == SerializeJSONProperty(x)

-----------------------------------------------------------------------------
(* JSON.parse, for the texts JSON.stringify writes (no white space, integer  *)
(* numbers).  A parse result is [ok, val, rest].                             *)

SyntaxError == [t |-> "SyntaxError"]
Fail == [ok |-> FALSE, val |-> SyntaxError, rest |-> <<>>]
Done(x, rest) == [ok |-> TRUE, val |-> x, rest |-> rest]

IsPrefix(p, s) == Len(p) <= Len(s) /\ SubSeq(s, 1, Len(p)) = p
Drop(s, n) == SubSeq(s, n + 1, Len(s))

IsDigit(c) == \E i \in 1..10 : Digits[i] = c
DigitValue(c) == (CHOOSE i \in 1..10 : Digits[i] = c) - 1

ParseWord(s, word, x) ==
    IF IsPrefix(Chars(word), s) THEN Done(x, Drop(s, Len(Chars(word)))) ELSE Fail

RECURSIVE ParseDigits(_, _)
ParseDigits(s, acc) ==
    IF s # <<>> /\ IsDigit(Head(s))
    THEN ParseDigits(Tail(s), 10 * acc + DigitValue(Head(s)))
    ELSE Done(acc, s)

\* int: "0" or a digit 1-9 followed by digits
ParseNat(s) ==
    IF s = <<>> \/ ~IsDigit(Head(s)) THEN Fail
    ELSE IF Head(s) = "0" THEN Done(0, Tail(s))
    ELSE ParseDigits(s, 0)

ParseNumber(s) ==
    IF s # <<>> /\ Head(s) = "-"
    THEN LET r == ParseNat(Tail(s))
         IN IF r.ok THEN Done(Num(0 - r.val), r.rest) ELSE Fail
    ELSE LET r == ParseNat(s)
         IN IF r.ok THEN Done(Num(r.val), r.rest) ELSE Fail

\* the characters after the opening quote, up to the closing quote
RECURSIVE ParseStringChars(_, _)
ParseStringChars(s, acc) ==
    IF s = <<>> THEN Fail
    ELSE IF Head(s) = QUOTE THEN Done(acc, Tail(s))
    ELSE IF Head(s) = BACKSLASH
         THEN IF Len(s) >= 2 /\ (s[2] = QUOTE \/ s[2] = BACKSLASH)
              THEN ParseStringChars(Drop(s, 2), Append(acc, s[2]))
              ELSE Fail
    ELSE ParseStringChars(Tail(s), Append(acc, Head(s)))

ParseString(s) ==
    IF s # <<>> /\ Head(s) = QUOTE THEN ParseStringChars(Tail(s), <<>>) ELSE Fail

RECURSIVE ParseValue(_), ParseElements(_, _), ParseMembers(_, _)
ParseValue(s) ==
    IF s = <<>> THEN Fail
    ELSE LET c == Head(s)
         IN CASE c = "n" -> ParseWord(s, "null", Null)
              [] c = "t" -> ParseWord(s, "true", Bool(TRUE))
              [] c = "f" -> ParseWord(s, "false", Bool(FALSE))
              [] c = QUOTE ->
                   LET r == ParseString(s)
                   IN IF r.ok THEN Done(Str(r.val), r.rest) ELSE Fail
              [] c = "[" ->
                   IF Len(s) >= 2 /\ s[2] = "]" THEN Done(Arr(<<>>), Drop(s, 2))
                   ELSE ParseElements(Tail(s), <<>>)
              [] c = "{" ->
                   IF Len(s) >= 2 /\ s[2] = "}" THEN Done(Obj(<<>>), Drop(s, 2))
                   ELSE ParseMembers(Tail(s), <<>>)
              [] c = "-" \/ IsDigit(c) -> ParseNumber(s)
              [] OTHER -> Fail

\* value ("," value)* "]"
ParseElements(s, acc) ==
    LET r == ParseValue(s)
    IN IF ~r.ok \/ r.rest = <<>> THEN Fail
       ELSE IF Head(r.rest) = "]" THEN Done(Arr(Append(acc, r.val)), Tail(r.rest))
       ELSE IF Head(r.rest) = "," THEN ParseElements(Tail(r.rest), Append(acc, r.val))
       ELSE Fail

\* string ":" value ("," string ":" value)* "}"
ParseMembers(s, acc) ==
    LET k == ParseString(s)
    IN IF ~k.ok \/ k.rest = <<>> \/ Head(k.rest) # ":" THEN Fail
       ELSE LET r == ParseValue(Tail(k.rest))
                ps == Append(acc, Prop(k.val, r.val))
            IN IF ~r.ok \/ r.rest = <<>> THEN Fail
               ELSE IF Head(r.rest) = "}" THEN Done(Obj(ps), Tail(r.rest))
               ELSE IF Head(r.rest) = "," THEN ParseMembers(Tail(r.rest), ps)
               ELSE Fail

\* JSON.parse(text): the value, or SyntaxError.  A body that is not a string
\* (undefined) is converted to the text "undefined", which is no JSON text.
JSONParse(body) ==
    IF ~body.defined THEN SyntaxError
    ELSE LET r == ParseValue(body.s)
         IN IF r.ok /\ r.rest = <<>> THEN r.val ELSE SyntaxError

-----------------------------------------------------------------------------
(* backend/src/config/index.ts *)

\* a string that is never serialized is kept as a TLA+ string
Lit(text) == [t |-> "string", v |-> text]

HeaderNames ==
    {"Access-Control-Allow-Origin", "Access-Control-Allow-Credentials",
     "Access-Control-Allow-Headers", "Access-Control-Allow-Methods", "Content-Type"}

\* process.env.X: the value, or undefined when the variable is not set
EnvGet(e, name) == IF name \in DOMAIN e THEN Lit(e[name]) ELSE Undefined

\* `process.env.ALLOWED_ORIGIN!`: the non-null assertion is erased by the
\* compiler, the property holds whatever the lookup gives
corsOption(e) ==
    [h \in HeaderNames |->
        CASE h = "Access-Control-Allow-Origin"      -> EnvGet(e, "ALLOWED_ORIGIN")
          [] h = "Access-Control-Allow-Credentials" -> Bool(FALSE)
          [] h = "Access-Control-Allow-Headers"     -> Lit("Content-Type, Authorization")
          [] h = "Access-Control-Allow-Methods"     -> Lit("GET, POST, PUT, DELETE, OPTIONS")
          [] h = "Content-Type"                     -> Lit("application/json")]

NotLoaded == [loaded |-> FALSE]

\* evaluation of the config module, at the first import
LoadConfig ==
    /\ ~config.loaded
    /\ config' = [loaded |-> TRUE, corsOption |-> corsOption(env)]
    /\ UNCHANGED <<env, lastSuccess, lastError>>
    /\ UNCHANGED <<clientVars, pageVars>>

-----------------------------------------------------------------------------
(* the response envelope builders *)

\* a parameter with a default value: the default stands in for undefined
DefaultParam(arg, dflt) == IF arg = Undefined THEN dflt ELSE arg

\* variant: the payload is wrapped before it is serialized
successResponse_Wrapped(body, statusCode) ==
    [statusCode |-> DefaultParam(statusCode, Num(200)),
     headers    |-> config.corsOption,
     body       |-> JSONStringify(Obj(<<Prop(<<"d", "a", "t", "a">>, body)>>))]

successResponse(body, statusCode) ==
    [statusCode |-> DefaultParam(statusCode, Num(200)),
     headers    |-> config.corsOption,
     body       |-> JSONStringify(body)]

\* variant: the error path answers with the content type alone
errorResponse_NoCors(error, message, statusCode) ==
    [statusCode |-> DefaultParam(statusCode, Num(500)),
     headers    |-> [h \in {"Content-Type"} |-> Lit("application/json")],
     body       |-> JSONStringify(Obj(<<Prop(<<"e", "r", "r", "o", "r">>, Str(error)),
                                       Prop(<<"m", "e", "s", "s", "a", "g", "e">>, Str(message))>>))]

\* variant: the error path takes the success path's default status
errorResponse_Default200(error, message, statusCode) ==
    [statusCode |-> DefaultParam(statusCode, Num(200)),
     headers    |-> config.corsOption,
     body       |-> JSONStringify(Obj(<<Prop(<<"e", "r", "r", "o", "r">>, Str(error)),
                                       Prop(<<"m", "e", "s", "s", "a", "g", "e">>, Str(message))>>))]

errorResponse(error, message, statusCode) ==
    [statusCode |-> DefaultParam(statusCode, Num(500)),
     headers    |-> config.corsOption,
     body       |-> JSONStringify(Obj(<<Prop(<<"e", "r", "r", "o", "r">>, Str(error)),
                                       Prop(<<"m", "e", "s", "s", "a", "g", "e">>, Str(message))>>))]

NotCalled == [called |-> FALSE]

\* the payloads handed to successResponse<T>(body: T)
ItemX ==
    Obj(<<Prop(<<"i", "d">>, Str(<<"x">>)),
          Prop(<<"p", "r", "i", "c", "e">>, Num(9)),
          Prop(<<"c", "a", "t">>, Str(<<"c">>))>>)

Payloads ==
    <<NaN, Infinity, Undefined, Null, Bool(TRUE), Bool(FALSE),
      Num(0), Num(7), Num(-12), Num(305),
      Str(<<>>), Str(<<"o", "k">>), Str(<<"a", QUOTE, "b">>), Str(<<BACKSLASH, "n">>),
      Str(<<"n", "u", "l", "l">>),
      Arr(<<>>), Arr(<<Num(1), Str(<<"a">>), Null>>), Arr(<<Undefined>>), Arr(<<ItemX, ItemX>>),
      Obj(<<>>), ItemX,
      Obj(<<Prop(<<"a">>, Undefined), Prop(<<"b">>, Num(1))>>),
      Obj(<<Prop(<<"p", "r", "i", "c", "e">>, NaN)>>),
      Obj(<<Prop(<<"k", QUOTE>>, Arr(<<Bool(FALSE), Obj(<<>>)>>))>>)>>

\* error: string, message: string
ErrorCodes ==
    <<<<"N", "o", "t", "F", "o", "u", "n", "d">>, <<>>>>
Messages ==
    <<<<"n", "o", " ", QUOTE, "x", QUOTE>>, <<"{", BACKSLASH, "}">>, <<>>>>

\* statusCode: number, or left out
SuccessStatusArgs == <<Undefined, Num(200), Num(201)>>
ErrorStatusArgs   == <<Undefined, Num(404), Num(500)>>

\* a handler returns successResponse(p, s)
SuccessResponse(p, s) ==
    /\ config.loaded
    /\ lastSuccess' = [called |-> TRUE, body |-> p, statusCode |-> s,
                       result |-> successResponse(p, s)]
    /\ UNCHANGED <<env, config, lastError>>
    /\ UNCHANGED <<clientVars, pageVars>>

\* a handler returns errorResponse(e, m, s)
ErrorResponse(e, m, s) ==
    /\ config.loaded
    /\ lastError' = [called |-> TRUE, error |-> e, message |-> m, statusCode |-> s,
                     result |-> errorResponse(e, m, s)]
    /\ UNCHANGED <<env, config, lastSuccess>>
    /\ UNCHANGED <<clientVars, pageVars>>

-----------------------------------------------------------------------------
(* the client at rest, for the server's specification *)

NoStorage == [k \in {} |-> ""]

\* no itemService call made, no component mounted
PagesAtRest ==
    /\ calls = <<>>
    /\ dashboard = [mounted |-> FALSE]
    /\ signUpForm = [mounted |-> FALSE]

ClientAtRest ==
    /\ storage = NoStorage
    /\ location = "/"
    /\ ops = <<>>
    /\ hrefWrites = <<>>
    /\ idTokenLog = Undefined
    /\ staleReset = FALSE

\* the server process: started with or without ALLOWED_ORIGIN in its environment
EnvelopeInit ==
    /\ env \in {[ALLOWED_ORIGIN |-> "https://app.example.com"], [k \in {} |-> ""]}
    /\ config = NotLoaded
    /\ lastSuccess = NotCalled
    /\ lastError = NotCalled
    /\ ClientAtRest
    /\ PagesAtRest

EnvelopeNext ==
    \/ LoadConfig
    \/ \E i \in DOMAIN Payloads, j \in DOMAIN SuccessStatusArgs :
          SuccessResponse(Payloads[i], SuccessStatusArgs[j])
    \/ \E i \in DOMAIN ErrorCodes, j \in DOMAIN Messages, k \in DOMAIN ErrorStatusArgs :
          ErrorResponse(ErrorCodes[i], Messages[j], ErrorStatusArgs[k])

EnvelopeSpec == EnvelopeInit /\ [][EnvelopeNext]_vars

-----------------------------------------------------------------------------
(* window.localStorage *)

NumOps == 2

Ops == 1..NumOps

StorageKeys == {"accessToken", "refreshToken", "idToken"}

\* the values the sign-in collaborator may write under each key
TokenValues(k) ==
    CASE k = "idToken"      -> {"", "id1", "id2"}
      [] k = "accessToken"  -> {"acc1"}
      [] k = "refreshToken" -> {"ref1"}

\* getItem: the string stored under k, or null
getItem(st, k) == IF k \in DOMAIN st THEN Lit(st[k]) ELSE Null

removeItem(st, k) == [x \in (DOMAIN st) \ {k} |-> st[x]]

setItem(st, k, v) == [x \in (DOMAIN st) \cup {k} |-> IF x = k THEN v ELSE st[x]]

\* ToBoolean of a string or null: null and the empty string are falsy
ToBoolean(x) == x.t = "string" /\ x.v # ""

-----------------------------------------------------------------------------
(* frontend/src/services/api.ts: the axios instance and its interceptors *)

\* axios.create({ headers: { 'Content-Type': 'application/json' } })
NewConfig == [headers |-> [h \in {"Content-Type"} |-> "application/json"]]

SetHeader(hs, name, v) == [h \in (DOMAIN hs) \cup {name} |-> IF h = name THEN v ELSE hs[h]]

\* config.headers[name], undefined when the header is not set
Header(cfg, name) == IF name \in DOMAIN cfg.headers THEN Lit(cfg.headers[name]) ELSE Undefined

\* variant: the header is attached whenever the entry exists
requestInterceptor_NotNull(cfg) ==
    LET token == getItem(storage, "idToken")
    IN IF token # Null
       THEN [cfg EXCEPT !.headers = SetHeader(@, "Authorization", "Bearer " \o token.v)]
       ELSE cfg

\* variant: the header of an earlier request of the instance is kept
requestInterceptor_Cached(cfg) ==
    LET token == getItem(storage, "idToken")
        earlier == {o \in DOMAIN ops : ops[o].pc # "idle"
                                       /\ "Authorization" \in DOMAIN ops[o].config.headers}
    IN IF earlier # {}
       THEN [cfg EXCEPT !.headers =
                SetHeader(@, "Authorization",
                          ops[CHOOSE o \in earlier : TRUE].config.headers["Authorization"])]
       ELSE IF ToBoolean(token)
       THEN [cfg EXCEPT !.headers = SetHeader(@, "Authorization", "Bearer " \o token.v)]
       ELSE cfg

\* variant: the access token is the bearer credential
requestInterceptor_AccessToken(cfg) ==
    LET token == getItem(storage, "accessToken")
    IN IF ToBoolean(token)
       THEN [cfg EXCEPT !.headers = SetHeader(@, "Authorization", "Bearer " \o token.v)]
       ELSE cfg

\* api.interceptors.request.use(config => ...)
requestInterceptor(cfg) ==
    LET token == getItem(storage, "idToken")
    IN IF ToBoolean(token)
       THEN [cfg EXCEPT !.headers = SetHeader(@, "Authorization", "Bearer " \o token.v)]
       ELSE cfg

\* a promise that is settled
Fulfilled(x) == [state |-> "fulfilled", value |-> x]
Rejected(x)  == [state |-> "rejected", value |-> x]
Pending      == [state |-> "pending"]

\* axios settles the request of operation o: the default validateStatus
\* resolves a 2xx status and rejects any other with an AxiosError
Settle(o, cfg, status) ==
    IF status >= 200 /\ status < 300
    THEN Fulfilled([request |-> o, config |-> cfg, status |-> status])
    ELSE Rejected([request |-> o, config |-> cfg, response |-> [status |-> status]])

\* no response was received: an AxiosError without a response
SettleNetworkError(o, cfg) == Rejected([request |-> o, config |-> cfg])

\* error.response?.status
ResponseStatus(error) ==
    IF "response" \in DOMAIN error THEN Num(error.response.status) ELSE Undefined

ClearSession(st) ==
    removeItem(removeItem(removeItem(st, "accessToken"), "refreshToken"), "idToken")

\* response => response
onFulfilled(response) == response

\* variant: the failure is recovered and not passed on
onRejected_Swallows(error) ==
    IF ResponseStatus(error) = Num(401)
    THEN [storage |-> ClearSession(storage), location |-> "/signin",
          promise |-> Fulfilled(error)]
    ELSE [storage |-> storage, location |-> location, promise |-> Rejected(error)]

\* variant: the session is cleared, the page is left where it is
onRejected_NoRedirect(error) ==
    IF ResponseStatus(error) = Num(401)
    THEN [storage |-> ClearSession(storage), location |-> location,
          promise |-> Rejected(error)]
    ELSE [storage |-> storage, location |-> location, promise |-> Rejected(error)]

\* variant: every answer of the server that is an error resets the session
onRejected_AnyStatus(error) ==
    IF ResponseStatus(error) # Undefined
    THEN [storage |-> ClearSession(storage), location |-> "/signin",
          promise |-> Rejected(error)]
    ELSE [storage |-> storage, location |-> location, promise |-> Rejected(error)]

\* variant: the session is reset only when the failed request carried the
\* token that is stored now
onRejected_OnlyOwnToken(error) ==
    IF /\ ResponseStatus(error) = Num(401)
       /\ Header(error.config, "Authorization") =
             (IF ToBoolean(getItem(storage, "idToken"))
              THEN Lit("Bearer " \o storage["idToken"]) ELSE Undefined)
    THEN [storage |-> ClearSession(storage), location |-> "/signin",
          promise |-> Rejected(error)]
    ELSE [storage |-> storage, location |-> location, promise |-> Rejected(error)]

\* variant: a 5xx is answered with `return api.request(error.config)`, the
\* promise of the request issued again
onRejected_Retries5xx(error) ==
    IF ResponseStatus(error) = Num(401)
    THEN [storage |-> ClearSession(storage), location |-> "/signin",
          promise |-> Rejected(error)]
    ELSE IF ResponseStatus(error) = Num(500)
    THEN [storage |-> storage, location |-> location, promise |-> Pending]
    ELSE [storage |-> storage, location |-> location, promise |-> Rejected(error)]

\* async error => { ... }: what it leaves in localStorage and
\* window.location.href, and the promise it returns
onRejected(error) ==
    IF ResponseStatus(error) = Num(401)
    THEN [storage |-> ClearSession(storage), location |-> "/signin",
          promise |-> Rejected(error)]
    ELSE [storage |-> storage, location |-> location, promise |-> Rejected(error)]

\* settled.then(onFulfilled, onRejected)
responseInterceptor(settled) ==
    IF settled.state = "fulfilled"
    THEN [storage |-> storage, location |-> location,
          promise |-> Fulfilled(onFulfilled(settled.value))]
    ELSE onRejected(settled.value)

-----------------------------------------------------------------------------
(* the operations of the client *)

IdleOp == [pc |-> "idle", config |-> NewConfig, settled |-> Pending, promise |-> Pending]

\* the HTTP statuses the server answers with
Statuses == {200, 401, 404, 500}

Is401(settled) ==
    settled.state = "rejected" /\ ResponseStatus(settled.value) = Num(401)

\* a non-empty idToken is stored that is not the one the request was sent with
CarriedStaleToken(cfg) ==
    LET token == getItem(storage, "idToken")
    IN ToBoolean(token) /\ Header(cfg, "Authorization") # Lit("Bearer " \o token.v)

\* api.get/post/put/delete: the request interceptor runs, the request is sent
Request(o) ==
    /\ ops[o].pc = "idle"
    /\ ops' = [ops EXCEPT ![o] = [@ EXCEPT !.pc = "sent",
                                           !.config = requestInterceptor(NewConfig)]]
    /\ UNCHANGED <<storage, location, hrefWrites, idTokenLog, staleReset>>
    /\ UNCHANGED <<serverVars, pageVars>>

\* the request of o is settled by axios and the response interceptor runs
Complete(o, settled) ==
    LET r == responseInterceptor(settled)
    IN /\ storage' = r.storage
       /\ location' = r.location
       /\ ops' = [ops EXCEPT ![o] = [@ EXCEPT !.pc = "done",
                                              !.settled = settled,
                                              !.promise = r.promise]]
       /\ hrefWrites' = IF Is401(settled)
                        THEN Append(hrefWrites, [from |-> location, to |-> r.location])
                        ELSE hrefWrites
       /\ idTokenLog' = IF Is401(settled) THEN Null ELSE idTokenLog
       /\ staleReset' = (staleReset \/ (Is401(settled) /\ CarriedStaleToken(ops[o].config)))
       /\ UNCHANGED <<serverVars, pageVars>>

\* the server answers the request of o with the status
Respond(o, status) ==
    /\ ops[o].pc = "sent"
    /\ Complete(o, Settle(o, ops[o].config, status))

\* the request of o fails without a response
NetworkError(o) ==
    /\ ops[o].pc = "sent"
    /\ Complete(o, SettleNetworkError(o, ops[o].config))

\* the sign-in collaborator writes an entry
SetItem(k, v) ==
    /\ storage' = setItem(storage, k, v)
    /\ idTokenLog' = IF k = "idToken" THEN Lit(v) ELSE idTokenLog
    /\ UNCHANGED <<location, ops, hrefWrites, staleReset>>
    /\ UNCHANGED <<serverVars, pageVars>>

\* the sign-out collaborator erases the entries
SignOut ==
    /\ storage' = ClearSession(storage)
    /\ idTokenLog' = Null
    /\ UNCHANGED <<location, ops, hrefWrites, staleReset>>
    /\ UNCHANGED <<serverVars, pageVars>>

\* the router moves to another page of the application
Navigate(l) ==
    /\ l # location
    /\ location' = l
    /\ UNCHANGED <<storage, ops, hrefWrites, idTokenLog, staleReset>>
    /\ UNCHANGED <<serverVars, pageVars>>

Locations == {"/", "/signin"}

Storages ==
    UNION {[ks -> UNION {TokenValues(k) : k \in StorageKeys}] : ks \in SUBSET StorageKeys}

ServerAtRest ==
    /\ env = [ALLOWED_ORIGIN |-> "https://app.example.com"]
    /\ config = NotLoaded
    /\ lastSuccess = NotCalled
    /\ lastError = NotCalled

\* the page is loaded: what is in localStorage was left by earlier sessions
Init ==
    /\ storage \in {st \in Storages : \A k \in DOMAIN st : st[k] \in TokenValues(k)}
    /\ location = "/"
    /\ ops = [o \in Ops |-> IdleOp]
    /\ hrefWrites = <<>>
    /\ idTokenLog = getItem(storage, "idToken")
    /\ staleReset = FALSE
    /\ ServerAtRest
    /\ PagesAtRest

InterceptorsNext ==
    \/ \E o \in Ops : Request(o)
    \/ \E o \in Ops, status \in Statuses : Respond(o, status)
    \/ \E o \in Ops : NetworkError(o)

Next ==
    \/ InterceptorsNext
    \/ \E k \in StorageKeys : \E v \in TokenValues(k) : SetItem(k, v)
    \/ SignOut
    \/ \E l \in Locations : Navigate(l)

Spec == Init /\ [][Next]_vars

\* the interceptors alone: no collaborator writes localStorage or moves the page
InterceptorsSpec == Init /\ [][InterceptorsNext]_vars

-----------------------------------------------------------------------------
(* Properties of the client's interceptors *)

\* the step in which the request interceptor runs for o and the request is sent
Sends(o) == ops[o].pc = "idle" /\ ops'[o].pc = "sent"

\* the step in which the request of o is settled and the response interceptor runs
Completes(o) == ops[o].pc = "sent" /\ ops'[o].pc = "done"

Authorization(o) == Header(ops[o].config, "Authorization")

NoTokenStored == (DOMAIN storage) \cap StorageKeys = {}

\* C1: when the response interceptor has run for a response of status 401,
\* accessToken, refreshToken and idToken are absent, the page is '/signin' and
\* the promise is rejected with the error axios raised: reset and rejection
\* come together.
UnauthorizedResetsAndRejects ==
    [][\A o \in Ops :
          (Completes(o) /\ Is401(ops'[o].settled)) =>
              /\ (DOMAIN storage') \cap StorageKeys = {}
              /\ location' = "/signin"
              /\ ops'[o].promise.state = "rejected"
              /\ ops'[o].promise.value =
                    [request |-> o, config |-> ops[o].config, response |-> [status |-> 401]]]_vars

SignedInRequestUnauthorized ==
    \E o \in Ops :
        /\ ops[o].pc = "done" /\ Is401(ops[o].settled)
        /\ Authorization(o) = Lit("Bearer id1")
        /\ ops[o].promise.state = "rejected"
        /\ NoTokenStored
        /\ location = "/signin"
        /\ hrefWrites = <<[from |-> "/", to |-> "/signin"]>>

\* C2 as stated: a request sent while the idToken entry is present carries
\* 'Bearer <token>', a request sent while it is absent carries no
\* Authorization header.
BearerWheneverEntryPresent ==
    [][\A o \in Ops :
          Sends(o) =>
              Header(ops'[o].config, "Authorization") =
                 (IF "idToken" \in DOMAIN storage
                  THEN Lit("Bearer " \o storage["idToken"])
                  ELSE Undefined)]_vars

\* C2 amended: a request sent while a non-empty idToken is stored carries
\* 'Bearer <idToken>'; a request sent while idToken is absent or is the empty
\* string carries no Authorization header.
BearerWheneverTokenNonEmpty ==
    [][\A o \in Ops :
          Sends(o) =>
              Header(ops'[o].config, "Authorization") =
                 (IF "idToken" \in DOMAIN storage /\ storage["idToken"] # ""
                  THEN Lit("Bearer " \o storage["idToken"])
                  ELSE Undefined)]_vars

SentWithAndWithoutToken ==
    \E a, b \in Ops :
        /\ ops[a].pc = "sent" /\ Authorization(a) = Lit("Bearer id2")
        /\ ops[b].pc = "sent" /\ Authorization(b) = Undefined
        /\ "idToken" \in DOMAIN storage /\ storage["idToken"] = ""

\* the assignments to window.location.href that moved the page
ObservableNavigations == {i \in DOMAIN hrefWrites : hrefWrites[i].from # hrefWrites[i].to}

\* C3: when all the operations have been answered 401, in whatever order
\* their response handlers ran: no token entry is left, the page moved to
\* '/signin' exactly once, and each operation is rejected with its own error.
ConcurrentUnauthorizedIdempotent ==
    (\A o \in Ops : ops[o].pc = "done" /\ Is401(ops[o].settled)) =>
        /\ NoTokenStored
        /\ location = "/signin"
        /\ Cardinality(ObservableNavigations) = 1
        /\ \A o \in Ops :
              ops[o].promise =
                 Rejected([request |-> o, config |-> ops[o].config,
                           response |-> [status |-> 401]])

\* both requests were sent with the token, hence before either handler ran
BothInFlightThenUnauthorized ==
    /\ \A o \in Ops : /\ ops[o].pc = "done" /\ Is401(ops[o].settled)
                      /\ Authorization(o) = Lit("Bearer id1")
    /\ Len(hrefWrites) = NumOps
    /\ hrefWrites[1] = [from |-> "/", to |-> "/signin"]
    /\ hrefWrites[2] = [from |-> "/signin", to |-> "/signin"]
    /\ NoTokenStored

\* C4: for a 2xx response, a 4xx other than 401, a 5xx and a failure without
\* a response, the response interceptor leaves localStorage and the location
\* as they are and hands on what axios settled: the same response, fulfilled,
\* or the same error, rejected.
OnlyUnauthorizedHasEffect ==
    [][\A o \in Ops :
          (Completes(o) /\ ~Is401(ops'[o].settled)) =>
              /\ storage' = storage
              /\ location' = location
              /\ ops'[o].promise = ops'[o].settled
              /\ ops'[o].settled.value.request = o
              /\ ops'[o].settled.value.config = ops[o].config]_vars

OtherOutcomesLeaveSession ==
    \E a, b \in Ops :
        /\ ops[a].pc = "done" /\ ops[a].promise.state = "rejected"
        /\ ResponseStatus(ops[a].promise.value) = Num(404)
        /\ ops[b].pc = "done" /\ ops[b].promise.state = "fulfilled"
        /\ ops[b].promise.value.status = 200
        /\ DOMAIN storage = StorageKeys /\ storage["idToken"] = "id1"
        /\ location = "/"
        /\ hrefWrites = <<>>

\* C10: every request carries the idToken last written to localStorage: none
\* after a 401 reset or a sign-out until a token is written again, and the
\* new one as soon as it is written.
FreshTokenPerRequest ==
    [][\A o \in Ops :
          Sends(o) =>
              Header(ops'[o].config, "Authorization") =
                 (IF ToBoolean(idTokenLog)
                  THEN Lit("Bearer " \o idTokenLog.v)
                  ELSE Undefined)]_vars

RequestAfterReset ==
    \E a, b \in Ops :
        /\ ops[a].pc = "done" /\ Is401(ops[a].settled)
        /\ Authorization(a) = Lit("Bearer id1")
        /\ ops[b].pc = "sent" /\ Authorization(b) = Undefined
        /\ idTokenLog = Null
        /\ "idToken" \notin DOMAIN storage

\* the values stored under accessToken and refreshToken, bare and as bearer
NonIdentityCredentials ==
    UNION {{v, "Bearer " \o v} :
              v \in (TokenValues("accessToken") \cup TokenValues("refreshToken")) \ {""}}

\* C14: the bearer credential is the idToken entry and nothing else: with
\* idToken absent or empty no Authorization header is attached, whatever is
\* stored under accessToken and refreshToken, and no header of a request
\* holds the value of accessToken or refreshToken.
BearerIsIdTokenOnly ==
    [][\A o \in Ops :
          Sends(o) =>
              /\ ~ToBoolean(getItem(storage, "idToken"))
                    => "Authorization" \notin DOMAIN ops'[o].config.headers
              /\ \A h \in DOMAIN ops'[o].config.headers :
                    ops'[o].config.headers[h] \notin NonIdentityCredentials
              /\ "Authorization" \in DOMAIN ops'[o].config.headers
                    => ops'[o].config.headers["Authorization"] \in
                          {"Bearer " \o v : v \in TokenValues("idToken") \ {""}}]_vars

SentWithOtherTokensOnly ==
    \E o \in Ops :
        /\ ops[o].pc = "sent" /\ Authorization(o) = Undefined
        /\ \A p \in Ops \ {o} : ops[p].pc = "idle"
        /\ DOMAIN storage = StorageKeys
        /\ storage["idToken"] = ""
        /\ storage["accessToken"] = "acc1" /\ storage["refreshToken"] = "ref1"
        /\ idTokenLog = Lit("")

\* C15: a 401 resets the session whatever token the failed request carried:
\* when the tokens stored are not the ones the request was sent with (they
\* were written while it was in flight), all three are erased and the page is
\* '/signin' all the same.
ResetIgnoresRequestToken ==
    [][\A o \in Ops :
          (Completes(o) /\ Is401(ops'[o].settled) /\ CarriedStaleToken(ops[o].config)) =>
              /\ (DOMAIN storage') \cap StorageKeys = {}
              /\ location' = "/signin"
              /\ ops'[o].promise.state = "rejected"]_vars

NewSessionErasedByStaleRequest ==
    /\ staleReset
    /\ NoTokenStored
    /\ location = "/signin"
    /\ idTokenLog = Null
    /\ Len(hrefWrites) = 1
    /\ \E o \in Ops : /\ ops[o].pc = "done" /\ Is401(ops[o].settled)
                      /\ Authorization(o) = Lit("Bearer id1")
                      /\ \A p \in Ops \ {o} : ops[p].pc = "idle"

-----------------------------------------------------------------------------
(* frontend/src/services/api.ts: itemService *)

NumCalls == 2

Calls == 1..NumCalls

ItemIds == {"x", "all"}

\* an ItemRequest, the payload of createItem and updateItem
ItemRequestN ==
    Obj(<<Prop(<<"n", "a", "m", "e">>, Str(<<"n">>)),
          Prop(<<"p", "r", "i", "c", "e">>, Num(9)),
          Prop(<<"c", "a", "t">>, Str(<<"c">>))>>)

\* the invocations of itemService: the function and its arguments
Invocations ==
    <<[fn |-> "createItem", id |-> "", item |-> ItemRequestN],
      [fn |-> "getItem", id |-> "x", item |-> Undefined],
      [fn |-> "getItem", id |-> "all", item |-> Undefined],
      [fn |-> "getAllItems", id |-> "", item |-> Undefined],
      [fn |-> "listItems", id |-> "", item |-> Undefined],
      [fn |-> "updateItem", id |-> "x", item |-> ItemRequestN],
      [fn |-> "deleteItem", id |-> "x", item |-> Undefined]>>

\* the bodies of the 2xx responses, as axios hands them over in response.data
ResponseBodies == <<ItemX, Arr(<<ItemX, ItemX>>)>>

\* variant: listItems asks for the unfiltered collection
itemServiceRequest_ListAll(fn, id, item) ==
    CASE fn = "createItem"  -> [method |-> "post", url |-> "/items", data |-> item]
      [] fn = "getItem"     -> [method |-> "get", url |-> "/items/" \o id, data |-> Undefined]
      [] fn = "getAllItems" -> [method |-> "get", url |-> "/items/all", data |-> Undefined]
      [] fn = "listItems"   -> [method |-> "get", url |-> "/items/all", data |-> Undefined]
      [] fn = "updateItem"  -> [method |-> "put", url |-> "/items/" \o id, data |-> item]
      [] fn = "deleteItem"  -> [method |-> "delete", url |-> "/items/" \o id, data |-> Undefined]

\* the api.post / api.get / api.put / api.delete call of each function
itemServiceRequest(fn, id, item) ==
    CASE fn = "createItem"  -> [method |-> "post", url |-> "/items", data |-> item]
      [] fn = "getItem"     -> [method |-> "get", url |-> "/items/" \o id, data |-> Undefined]
      [] fn = "getAllItems" -> [method |-> "get", url |-> "/items/all", data |-> Undefined]
      [] fn = "listItems"   -> [method |-> "get", url |-> "/items", data |-> Undefined]
      [] fn = "updateItem"  -> [method |-> "put", url |-> "/items/" \o id, data |-> item]
      [] fn = "deleteItem"  -> [method |-> "delete", url |-> "/items/" \o id, data |-> Undefined]

\* variant: deleteItem returns the body like the other functions
itemServiceResult_AlwaysData(fn, response) == response.data

\* what the function returns once the response is there
itemServiceResult(fn, response) ==
    IF fn = "deleteItem" THEN Undefined ELSE response.data

\* axios settles a request whose 2xx response has the body data
SettleData(c, cfg, status, data) ==
    IF status >= 200 /\ status < 300
    THEN Fulfilled([request |-> c, config |-> cfg, status |-> status, data |-> data])
    ELSE Settle(c, cfg, status)

IdleCall ==
    [pc |-> "idle", args |-> Undefined, requests |-> <<>>,
     settled |-> Pending, promise |-> Pending]

\* itemService.fn(...) is called: it runs up to its await, the request
\* interceptor runs and the request is sent
Invoke(c, inv) ==
    /\ calls[c].pc = "idle"
    /\ LET req == itemServiceRequest(inv.fn, inv.id, inv.item)
           cfg == requestInterceptor([headers |-> NewConfig.headers, method |-> req.method,
                                      url |-> req.url, data |-> req.data])
       IN calls' = [calls EXCEPT ![c] = [@ EXCEPT !.pc = "awaiting",
                                                  !.args = inv,
                                                  !.requests = <<cfg>>]]
    /\ UNCHANGED <<dashboard, signUpForm>>
    /\ UNCHANGED <<clientVars, serverVars>>

\* the request of c is settled, the response interceptor runs and the function
\* resumes after its await.  An interceptor that hands back a pending promise
\* has sent the request again.
Resume(c, settled) ==
    LET r   == responseInterceptor(settled)
        cfg == calls[c].requests[Len(calls[c].requests)]
    IN /\ storage' = r.storage
       /\ location' = r.location
       /\ calls' = [calls EXCEPT ![c] =
             CASE r.promise.state = "fulfilled" ->
                    [@ EXCEPT !.pc = "settled", !.settled = settled,
                              !.promise = Fulfilled(itemServiceResult(calls[c].args.fn, r.promise.value))]
               [] r.promise.state = "rejected" ->
                    [@ EXCEPT !.pc = "settled", !.settled = settled,
                              !.promise = Rejected(r.promise.value)]
               [] r.promise.state = "pending" ->
                    [@ EXCEPT !.requests = Append(@, cfg)]]
       /\ hrefWrites' = IF Is401(settled)
                        THEN Append(hrefWrites, [from |-> location, to |-> r.location])
                        ELSE hrefWrites
       /\ idTokenLog' = IF Is401(settled) THEN Null ELSE idTokenLog
       /\ staleReset' = (staleReset \/ (Is401(settled) /\ CarriedStaleToken(cfg)))
       /\ UNCHANGED <<ops, dashboard, signUpForm>>
       /\ UNCHANGED serverVars

\* the server answers the request of c
ServiceRespond(c, status, data) ==
    /\ calls[c].pc = "awaiting"
    /\ Resume(c, SettleData(c, calls[c].requests[Len(calls[c].requests)], status, data))

\* the request of c fails without a response
ServiceNetworkError(c) ==
    /\ calls[c].pc = "awaiting"
    /\ Resume(c, SettleNetworkError(c, calls[c].requests[Len(calls[c].requests)]))

SignedIn == [k \in StorageKeys |-> CASE k = "idToken" -> "id1"
                                     [] k = "accessToken" -> "acc1"
                                     [] k = "refreshToken" -> "ref1"]

\* the Dashboard page is open, signed in or not
ServiceInit ==
    /\ storage \in {NoStorage, SignedIn}
    /\ location = "/"
    /\ ops = [o \in Ops |-> IdleOp]
    /\ hrefWrites = <<>>
    /\ idTokenLog = getItem(storage, "idToken")
    /\ staleReset = FALSE
    /\ calls = [c \in Calls |-> IdleCall]
    /\ dashboard = [mounted |-> FALSE]
    /\ signUpForm = [mounted |-> FALSE]
    /\ ServerAtRest

ServiceNext ==
    \/ \E c \in Calls, i \in DOMAIN Invocations : Invoke(c, Invocations[i])
    \/ \E c \in Calls, status \in Statuses, i \in DOMAIN ResponseBodies :
          ServiceRespond(c, status, ResponseBodies[i])
    \/ \E c \in Calls : ServiceNetworkError(c)

ServiceSpec == ServiceInit /\ [][ServiceNext]_vars

-----------------------------------------------------------------------------
(* Properties of itemService (ServiceSpec) *)

Called(c) == calls[c].pc # "idle"

Resolved2xx(c) == calls[c].pc = "settled" /\ calls[c].settled.state = "fulfilled"

Failed(c) == calls[c].pc = "settled" /\ calls[c].settled.state = "rejected"

\* C11: deleteItem(id) sends exactly one request, DELETE /items/{id}; on a 2xx
\* response it resolves with no payload; on a failure it rejects and no
\* further request is sent.
DeleteItemOnce ==
    \A c \in Calls :
        (Called(c) /\ calls[c].args.fn = "deleteItem") =>
            /\ Len(calls[c].requests) = 1
            /\ calls[c].requests[1].method = "delete"
            /\ calls[c].requests[1].url = "/items/" \o calls[c].args.id
            /\ Resolved2xx(c) => calls[c].promise = Fulfilled(Undefined)
            /\ Failed(c) => calls[c].promise = Rejected(calls[c].settled.value)

DeleteResolvedAndDeleteFailed ==
    \E a, b \in Calls :
        /\ Called(a) /\ Called(b)
        /\ calls[a].args.fn = "deleteItem" /\ Resolved2xx(a)
        /\ calls[a].settled.value.data = ItemX
        /\ calls[a].promise = Fulfilled(Undefined)
        /\ calls[b].args.fn = "deleteItem" /\ Failed(b)
        /\ ResponseStatus(calls[b].settled.value) = Num(404)
        /\ Len(calls[b].requests) = 1

\* the operations table
VerbAndPath(inv) ==
    CASE inv.fn = "createItem"  -> <<"post", "/items">>
      [] inv.fn = "getItem"     -> <<"get", "/items/" \o inv.id>>
      [] inv.fn = "getAllItems" -> <<"get", "/items/all">>
      [] inv.fn = "listItems"   -> <<"get", "/items">>
      [] inv.fn = "updateItem"  -> <<"put", "/items/" \o inv.id>>
      [] inv.fn = "deleteItem"  -> <<"delete", "/items/" \o inv.id>>

\* C12: createItem, getItem, getAllItems, listItems and updateItem send the
\* verb and path of the operations table and, on a 2xx response, resolve to
\* the response body as it is.
VerbPathAndBody ==
    \A c \in Calls :
        (Called(c) /\ calls[c].args.fn # "deleteItem") =>
            /\ <<calls[c].requests[1].method, calls[c].requests[1].url>>
                  = VerbAndPath(calls[c].args)
            /\ Resolved2xx(c) => calls[c].promise = Fulfilled(calls[c].settled.value.data)

GetItemResolvesToBody ==
    \E a, b \in Calls :
        /\ Called(a) /\ Called(b)
        /\ calls[a].args = [fn |-> "getItem", id |-> "x", item |-> Undefined]
        /\ calls[a].requests = <<requestInterceptor(
              [headers |-> NewConfig.headers, method |-> "get",
               url |-> "/items/x", data |-> Undefined])>>
        /\ Resolved2xx(a) /\ calls[a].settled.value.status = 200
        /\ calls[a].promise = Fulfilled(ItemX)
        /\ calls[b].args.fn = "listItems" /\ Resolved2xx(b)
        /\ calls[b].requests[1].url = "/items"
        /\ calls[b].promise = Fulfilled(Arr(<<ItemX, ItemX>>))

\* C13: an invocation sends one request and no more, whatever the outcome: a
\* 5xx, a 401 or a failure without response is handed to the caller and the
\* request is not sent again.
NoRetry ==
    \A c \in Calls :
        /\ Len(calls[c].requests) = (IF Called(c) THEN 1 ELSE 0)
        /\ Failed(c) => calls[c].promise = Rejected(calls[c].settled.value)
        /\ calls[c].pc = "settled" => calls[c].settled.state # "pending"

FailuresHandedOn ==
    \E a, b \in Calls :
        /\ Failed(a) /\ ResponseStatus(calls[a].settled.value) = Num(500)
        /\ Failed(b) /\ ResponseStatus(calls[b].settled.value) = Undefined
        /\ calls[a].promise.state = "rejected" /\ calls[b].promise.state = "rejected"
        /\ Len(calls[a].requests) = 1 /\ Len(calls[b].requests) = 1

-----------------------------------------------------------------------------
(* frontend/src/components/Dashboard.tsx *)

MaxItems == 2
NumDeletes == 2

Deletes == 1..NumDeletes

\* the items the server may hold; two of them share an itemId
ItemPool ==
    <<[itemId |-> "x", price |-> 1], [itemId |-> "x", price |-> 2], [itemId |-> "y", price |-> 3]>>

RECURSIVE ItemLists(_)
ItemLists(n) ==
    IF n = 0 THEN {<<>>}
    ELSE ItemLists(n - 1) \cup
         {Append(l, ItemPool[i]) : l \in {m \in ItemLists(n - 1) : Len(m) = n - 1},
                                   i \in DOMAIN ItemPool}

\* what itemService.deleteItem may reject with
AxiosError(response) == [isAxiosError |-> TRUE, response |-> response]
HttpResponse(data)   == [t |-> "response", data |-> data]
ErrorBody(message)   == [t |-> "body", message |-> message]

DeleteFailures ==
    <<AxiosError(HttpResponse(ErrorBody(Lit("Item not found")))),
      AxiosError(HttpResponse(ErrorBody(Lit("")))),
      AxiosError(HttpResponse(ErrorBody(Undefined))),
      AxiosError(HttpResponse(Lit(""))),
      AxiosError(Undefined),
      [isAxiosError |-> FALSE, response |-> Undefined]>>

\* err.response?.data?.message
ResponseDataMessage(err) ==
    IF err.response.t # "response" THEN Undefined
    ELSE IF err.response.data.t # "body" THEN Undefined
    ELSE err.response.data.message

\* a || b
OrElse(a, b) == IF ToBoolean(a) THEN a ELSE b

ClosedDeleteModal == [isOpen |-> FALSE, itemId |-> Null]

\* variant: the items that match are the ones kept
deleteResolved_KeepsMatching(d, id) ==
    [d EXCEPT !.items = SelectSeq(@, LAMBDA item : item.itemId = id),
              !.error = "",
              !.deleteModal = ClosedDeleteModal,
              !.successMessage = "Product deleted successfully!"]

\* handleDeleteItem after `await itemService.deleteItem(id)` returned
deleteResolved(d, id) ==
    [d EXCEPT !.items = SelectSeq(@, LAMBDA item : item.itemId # id),
              !.error = "",
              !.deleteModal = ClosedDeleteModal,
              !.successMessage = "Product deleted successfully!"]

\* handleDeleteItem in its catch block
deleteRejected(d, err) ==
    [d EXCEPT !.error = IF err.isAxiosError
                        THEN OrElse(ResponseDataMessage(err), Lit("Failed to delete item")).v
                        ELSE "Failed to delete item",
              !.deleteModal = ClosedDeleteModal]

IdleDelete == [pc |-> "idle", id |-> ""]

\* confirmDelete(id), from the delete button of an item of the list
ConfirmDelete(id) ==
    /\ dashboard.mounted
    /\ \E k \in DOMAIN dashboard.items : dashboard.items[k].itemId = id
    /\ dashboard' = [dashboard EXCEPT !.deleteModal = [isOpen |-> TRUE, itemId |-> Lit(id)]]
    /\ UNCHANGED <<calls, signUpForm>>
    /\ UNCHANGED <<clientVars, serverVars>>

\* onCancel of the confirmation modal
CancelDelete ==
    /\ dashboard.mounted
    /\ dashboard.deleteModal.isOpen
    /\ dashboard' = [dashboard EXCEPT !.deleteModal = ClosedDeleteModal]
    /\ UNCHANGED <<calls, signUpForm>>
    /\ UNCHANGED <<clientVars, serverVars>>

\* onConfirm of the confirmation modal: handleDeleteItem(deleteModal.itemId)
\* runs up to its await
StartDelete(i) ==
    /\ dashboard.mounted
    /\ dashboard.deleteModal.isOpen
    /\ ToBoolean(dashboard.deleteModal.itemId)
    /\ dashboard.deletes[i].pc = "idle"
    /\ dashboard' = [dashboard EXCEPT
          !.deletes[i] = [pc |-> "awaiting", id |-> dashboard.deleteModal.itemId.v]]
    /\ UNCHANGED <<calls, signUpForm>>
    /\ UNCHANGED <<clientVars, serverVars>>

\* itemService.deleteItem resolved: the rest of the try block
DeleteResolved(i) ==
    /\ dashboard.mounted
    /\ dashboard.deletes[i].pc = "awaiting"
    /\ dashboard' = [deleteResolved(dashboard, dashboard.deletes[i].id)
                        EXCEPT !.deletes[i].pc = "resolved"]
    /\ UNCHANGED <<calls, signUpForm>>
    /\ UNCHANGED <<clientVars, serverVars>>

\* itemService.deleteItem rejected with err: the catch block
DeleteRejected(i, err) ==
    /\ dashboard.mounted
    /\ dashboard.deletes[i].pc = "awaiting"
    /\ dashboard' = [deleteRejected(dashboard, err) EXCEPT !.deletes[i].pc = "rejected"]
    /\ UNCHANGED <<calls, signUpForm>>
    /\ UNCHANGED <<clientVars, serverVars>>

\* handleCreateItem after createItem returned the new item
ItemCreated(item) ==
    /\ dashboard.mounted
    /\ Len(dashboard.items) < MaxItems
    /\ dashboard' = [dashboard EXCEPT !.items = Append(@, item),
                                      !.error = "",
                                      !.successMessage = "Product created successfully!"]
    /\ UNCHANGED <<calls, signUpForm>>
    /\ UNCHANGED <<clientVars, serverVars>>

\* the timer of showSuccess fires
SuccessTimeout ==
    /\ dashboard.mounted
    /\ dashboard.successMessage # ""
    /\ dashboard' = [dashboard EXCEPT !.successMessage = ""]
    /\ UNCHANGED <<calls, signUpForm>>
    /\ UNCHANGED <<clientVars, serverVars>>

\* the close button of the error banner
DismissError ==
    /\ dashboard.mounted
    /\ dashboard.error # ""
    /\ dashboard' = [dashboard EXCEPT !.error = ""]
    /\ UNCHANGED <<calls, signUpForm>>
    /\ UNCHANGED <<clientVars, serverVars>>

\* the Dashboard is mounted and loadItems has set the list
DashboardInit ==
    /\ dashboard \in [mounted : {TRUE},
                      items : ItemLists(MaxItems),
                      error : {""},
                      deleteModal : {ClosedDeleteModal},
                      successMessage : {""},
                      deletes : {[i \in Deletes |-> IdleDelete]}]
    /\ calls = <<>>
    /\ signUpForm = [mounted |-> FALSE]
    /\ ClientAtRest
    /\ ServerAtRest

DashboardNext ==
    \/ \E id \in {"x", "y"} : ConfirmDelete(id)
    \/ CancelDelete
    \/ \E i \in Deletes : StartDelete(i)
    \/ \E i \in Deletes : DeleteResolved(i)
    \/ \E i \in Deletes, e \in DOMAIN DeleteFailures : DeleteRejected(i, DeleteFailures[e])
    \/ \E k \in DOMAIN ItemPool : ItemCreated(ItemPool[k])
    \/ SuccessTimeout
    \/ DismissError

DashboardSpec == DashboardInit /\ [][DashboardNext]_vars

-----------------------------------------------------------------------------
(* Properties of Dashboard.handleDeleteItem (DashboardSpec) *)

\* the positions of the items of l whose itemId is not id
Others(l, id) == {k \in DOMAIN l : l[k].itemId # id}

\* m is l without the items whose itemId is id, the others in their order
IsWithout(m, l, id) ==
    /\ Len(m) = Cardinality(Others(l, id))
    /\ \A k \in Others(l, id) : m[Cardinality({j \in Others(l, id) : j <= k})] = l[k]

\* C16: when deleteItem resolves, the list afterwards has no item with that
\* itemId and keeps every other item in its order; when it rejects, the list
\* is unchanged and the error message is not empty; either way the delete
\* modal ends closed with itemId null.
HandleDeleteItemOutcome ==
    [][\A i \in Deletes :
          (dashboard.deletes[i].pc = "awaiting" /\ dashboard'.deletes[i].pc # "awaiting") =>
              /\ dashboard'.deleteModal = [isOpen |-> FALSE, itemId |-> Null]
              /\ dashboard'.deletes[i].pc = "resolved" =>
                    /\ \A k \in DOMAIN dashboard'.items :
                          dashboard'.items[k].itemId # dashboard.deletes[i].id
                    /\ IsWithout(dashboard'.items, dashboard.items, dashboard.deletes[i].id)
              /\ dashboard'.deletes[i].pc = "rejected" =>
                    /\ dashboard'.items = dashboard.items
                    /\ dashboard'.error # ""]_vars

OneDeletedOneFailed ==
    /\ dashboard.mounted
    /\ \E i, j \in Deletes :
          /\ dashboard.deletes[i] = [pc |-> "resolved", id |-> "x"]
          /\ dashboard.deletes[j] = [pc |-> "rejected", id |-> "y"]
    /\ dashboard.items = <<[itemId |-> "y", price |-> 3]>>
    /\ dashboard.error = "Failed to delete item"
    /\ dashboard.deleteModal = ClosedDeleteModal

-----------------------------------------------------------------------------
(* frontend/src/components/SignUpForm.tsx *)

MaxSubmits == 2

FieldNames == {"email", "password", "name", "confirmPassword"}

\* what can be typed into a field; the passwords have 0, 7, 8, 8 and 9
\* UTF-16 code units
FieldValues(field) ==
    CASE field = "email" -> {"", "a@b.c"}
      [] field = "name" -> {"", "Ann"}
      [] OTHER -> {"", "1234567", "12345678", "abcdefgh", "123456789"}

\* what signUp may reject with
SignUpFailures ==
    <<[isAxiosError |-> TRUE, response |-> HttpResponse(Lit("User already exists"))],
      [isAxiosError |-> TRUE, response |-> Undefined],
      [isAxiosError |-> FALSE, response |-> Undefined]>>

\* error.response?.data
ResponseData(err) == IF err.response.t # "response" THEN Undefined ELSE err.response.data

\* variant: only the length is checked
passwordChecks_LengthOnly(formData) ==
    IF Len(formData.password) < 8
    THEN "Password must be at least 8 characters long"
    ELSE ""

\* the two early returns of handleSubmit: the message set, "" when both pass
passwordChecks(formData) ==
    IF formData.password # formData.confirmPassword
    THEN "Passwords do not match"
    ELSE IF Len(formData.password) < 8
    THEN "Password must be at least 8 characters long"
    ELSE ""

NoSignUp == [pc |-> "idle", args |-> <<>>]

\* handleChange, from any of the four inputs
HandleChange(field, value) ==
    /\ signUpForm.mounted
    /\ signUpForm.formData[field] # value
    /\ signUpForm' = [signUpForm EXCEPT !.formData[field] = value]
    /\ UNCHANGED <<calls, dashboard>>
    /\ UNCHANGED <<clientVars, serverVars>>

\* handleSubmit up to its return or its await; the submit button is disabled
\* while isLoading
HandleSubmit ==
    /\ signUpForm.mounted
    /\ ~signUpForm.isLoading
    /\ Len(signUpForm.submits) < MaxSubmits
    /\ LET formData == signUpForm.formData
           message  == passwordChecks(formData)
       IN  signUpForm' =
             IF message # ""
             THEN [signUpForm EXCEPT !.error = Lit(message),
                                     !.submits = Append(@, FALSE)]
             ELSE [signUpForm EXCEPT
                      !.isLoading = TRUE,
                      !.error = Lit(""),
                      !.signUp = [pc |-> "awaiting",
                                  args |-> <<formData.email, formData.password, formData.name>>],
                      !.submits = Append(@, TRUE)]
    /\ UNCHANGED <<calls, dashboard>>
    /\ UNCHANGED <<clientVars, serverVars>>

\* signUp resolved: the finally block
SignUpResolved ==
    /\ signUpForm.mounted
    /\ signUpForm.signUp.pc = "awaiting"
    /\ signUpForm' = [signUpForm EXCEPT !.isLoading = FALSE, !.signUp.pc = "resolved"]
    /\ UNCHANGED <<calls, dashboard>>
    /\ UNCHANGED <<clientVars, serverVars>>

\* signUp rejected with err: the catch block, then the finally block
SignUpRejected(err) ==
    /\ signUpForm.mounted
    /\ signUpForm.signUp.pc = "awaiting"
    /\ signUpForm' = [signUpForm EXCEPT
          !.error = IF err.isAxiosError THEN ResponseData(err)
                    ELSE Lit("Failed to create new account"),
          !.isLoading = FALSE,
          !.signUp.pc = "rejected"]
    /\ UNCHANGED <<calls, dashboard>>
    /\ UNCHANGED <<clientVars, serverVars>>

SignUpInit ==
    /\ signUpForm = [mounted |-> TRUE,
                     formData |-> [f \in FieldNames |-> ""],
                     error |-> Lit(""),
                     isLoading |-> FALSE,
                     signUp |-> NoSignUp,
                     submits |-> <<>>]
    /\ calls = <<>>
    /\ dashboard = [mounted |-> FALSE]
    /\ ClientAtRest
    /\ ServerAtRest

SignUpNext ==
    \/ \E field \in FieldNames : \E value \in FieldValues(field) : HandleChange(field, value)
    \/ HandleSubmit
    \/ SignUpResolved
    \/ \E e \in DOMAIN SignUpFailures : SignUpRejected(SignUpFailures[e])

SignUpSpec == SignUpInit /\ [][SignUpNext]_vars

-----------------------------------------------------------------------------
(* Properties of SignUpForm.handleSubmit (SignUpSpec) *)

Submitted == Len(signUpForm'.submits) = Len(signUpForm.submits) + 1

SignUpInvoked == Submitted /\ signUpForm'.submits[Len(signUpForm'.submits)]

SignUpPending == signUpForm.signUp.pc = "awaiting"

\* C17: handleSubmit calls signUp exactly when password equals confirmPassword
\* and password has at least 8 characters; when a check fails, signUp is not
\* called, an error message is set and isLoading was false and stays false;
\* isLoading is true in every state where signUp is pending and false in the
\* state reached when it settles, resolved or rejected.
SubmitChecksAndLoadingFlag ==
    /\ [](SignUpPending => signUpForm.isLoading)
    /\ [][/\ Submitted =>
                (SignUpInvoked <=>
                    /\ signUpForm.formData.password = signUpForm.formData.confirmPassword
                    /\ Len(signUpForm.formData.password) >= 8)
          /\ SignUpInvoked =>
                /\ signUpForm'.signUp.pc = "awaiting"
                /\ signUpForm'.signUp.args[2] = signUpForm.formData.password
                /\ signUpForm'.isLoading
          /\ (Submitted /\ ~SignUpInvoked) =>
                /\ signUpForm'.signUp = signUpForm.signUp
                /\ ~SignUpPending
                /\ ToBoolean(signUpForm'.error)
                /\ ~signUpForm.isLoading
                /\ ~signUpForm'.isLoading
          /\ (SignUpPending /\ signUpForm'.signUp.pc # "awaiting") =>
                ~signUpForm'.isLoading]_vars

RefusedThenRejected ==
    /\ signUpForm.mounted
    /\ signUpForm.submits = <<FALSE, TRUE>>
    /\ signUpForm.signUp.pc = "rejected"
    /\ signUpForm.error = Lit("User already exists")
    /\ ~signUpForm.isLoading

-----------------------------------------------------------------------------
(* Properties of the response envelope builders (EnvelopeSpec) *)

ErrorEnvelope(e, m) ==
    Obj(<<Prop(<<"e", "r", "r", "o", "r">>, Str(e)),
          Prop(<<"m", "e", "s", "s", "a", "g", "e">>, Str(m))>>)

\* null, a boolean, a finite number, a string, or an array or object of these
RECURSIVE IsJSONValue(_)
IsJSONValue(x) ==
    CASE x.t \in {"null", "boolean", "number", "string"} -> TRUE
      [] x.t = "array"  -> \A i \in DOMAIN x.v : IsJSONValue(x.v[i])
      [] x.t = "object" -> \A i \in DOMAIN x.v : IsJSONValue(x.v[i].val)
      [] OTHER -> FALSE

\* C5: whatever the latest successResponse(p, s) and errorResponse(e, m, s2)
\* calls were, after any sequence of earlier calls, their headers are equal.
HeadersIndependentOfOutcome ==
    (lastSuccess.called /\ lastError.called)
        => lastSuccess.result.headers = lastError.result.headers

HeadersComparedAcrossOutcomes ==
    /\ lastSuccess.called /\ lastError.called
    /\ lastSuccess.statusCode = Num(201) /\ lastError.statusCode = Num(404)
    /\ lastSuccess.body = ItemX
    /\ lastSuccess.result.headers["Content-Type"] = Lit("application/json")

\* C6 as stated: for EVERY payload p, JSON.parse(successResponse(p).body) is p,
\* and JSON.parse(errorResponse(e, m).body) is {error: e, message: m}.
RoundTripEveryPayload ==
    /\ lastSuccess.called => JSONParse(lastSuccess.result.body) = lastSuccess.body
    /\ lastError.called =>
          JSONParse(lastError.result.body) = ErrorEnvelope(lastError.error, lastError.message)

\* C6 amended: for every payload p that is a JSON value (null, a boolean, a
\* finite number other than -0, a string, or an array or plain object of these),
\* JSON.parse(successResponse(p).body) is p; and for all strings e and m,
\* JSON.parse(errorResponse(e, m).body) is exactly {error: e, message: m}.
RoundTripJSONValues ==
    /\ (lastSuccess.called /\ IsJSONValue(lastSuccess.body))
          => JSONParse(lastSuccess.result.body) = lastSuccess.body
    /\ lastError.called =>
          JSONParse(lastError.result.body) = ErrorEnvelope(lastError.error, lastError.message)

RoundTripOfQuotedText ==
    /\ lastSuccess.called /\ lastError.called
    /\ lastSuccess.body = Obj(<<Prop(<<"k", QUOTE>>, Arr(<<Bool(FALSE), Obj(<<>>)>>))>>)
    /\ lastError.message = <<"n", "o", " ", QUOTE, "x", QUOTE>>
    /\ JSONParse(lastSuccess.result.body) = lastSuccess.body

\* C7: the body of every envelope is a string of valid JSON: the serialized
\* payload, or an object with exactly the string fields error and message.
BodyAlwaysValidJSON ==
    /\ lastSuccess.called =>
          /\ lastSuccess.result.body.defined
          /\ JSONParse(lastSuccess.result.body) # SyntaxError
    /\ lastError.called =>
          /\ lastError.result.body.defined
          /\ LET o == JSONParse(lastError.result.body)
             IN /\ o.t = "object"
                /\ Len(o.v) = 2
                /\ o.v[1].key = <<"e", "r", "r", "o", "r">> /\ o.v[1].val.t = "string"
                /\ o.v[2].key = <<"m", "e", "s", "s", "a", "g", "e">> /\ o.v[2].val.t = "string"

\* C8: with the status left out successResponse answers 200 and errorResponse
\* 500; a status that is given is the status returned.
StatusCodeDefaults ==
    /\ lastSuccess.called =>
          lastSuccess.result.statusCode =
             (IF lastSuccess.statusCode = Undefined THEN Num(200) ELSE lastSuccess.statusCode)
    /\ lastError.called =>
          lastError.result.statusCode =
             (IF lastError.statusCode = Undefined THEN Num(500) ELSE lastError.statusCode)

BothStatusesLeftOut ==
    /\ lastSuccess.called /\ lastSuccess.statusCode = Undefined
    /\ lastError.called /\ lastError.statusCode = Undefined
    /\ lastSuccess.result.statusCode = Num(200)
    /\ lastError.result.statusCode = Num(500)

\* C9: without ALLOWED_ORIGIN in the environment the module fails when it is
\* loaded, so no envelope is built whose Access-Control-Allow-Origin is missing.
NoEnvelopeWithoutOrigin ==
    /\ ("ALLOWED_ORIGIN" \notin DOMAIN env) => ~lastSuccess.called /\ ~lastError.called
    /\ lastSuccess.called =>
          lastSuccess.result.headers["Access-Control-Allow-Origin"] # Undefined
    /\ lastError.called =>
          lastError.result.headers["Access-Control-Allow-Origin"] # Undefined

=============================================================================
